---------------------------- MODULE Spec2Model ----------------------------
(***************************************************************************)
(* The prototype decision tree of ProtoTree: tree section, probability     *)
(* propagation, routing strategies and the leaf distribution learner       *)
(* (src/src/proto/models.py, src/src/prototree/models.py).                 *)
(*                                                                         *)
(* Numbers.  The code works on float tensors in log space.  The model uses *)
(* exact rationals <<n, d>> (d > 0, lowest terms).  A log-space quantity l *)
(* is held as the rational exp(l), so that                                 *)
(*     a + b  in log space is the product        (LogAdd),                 *)
(*     a - b  in log space is the quotient       (LogSub),                 *)
(*     -a     in log space is the reciprocal     (LogNeg),                 *)
(*     log(1 - exp(a)) is the complement 1 - a   (Log1mExp),               *)
(*     logsumexp is the sum                      (LogSumExp),              *)
(*     0 = log 1 is 1/1 and -log 2 is 1/2,                                 *)
(* and the order of log values is the order of the rationals.  The routing *)
(* probabilities are exact.  The leaf learner's class vectors and batch    *)
(* updates are rounded to multiples of 2^-RoundBits (Float), as a float    *)
(* tensor holds them with finite precision.                                *)
(***************************************************************************)
EXTENDS Integers, Sequences, FiniteSets, TLC

(***************************************************************************)
(* Bounds of the model.                                                    *)
(***************************************************************************)
MaxDepth == 2
MaxBatch == 2
MaxUpdates == 2
NumClasses == 2
RoundBits == 6
MaxEpochs == 4
MaxFreezeEpochs == 2
NumParams == 2

Classes == 0 .. (NumClasses - 1)

(***************************************************************************)
(* Exact rational arithmetic.                                              *)
(***************************************************************************)
RECURSIVE GCD(_, _)
GCD(a, b) == IF b = 0 THEN a ELSE GCD(b, a % b)

Abs(n) == IF n < 0 THEN -n ELSE n

Rat(n, d) ==
    LET g == GCD(Abs(n), Abs(d))
        s == IF d < 0 THEN -1 ELSE 1
    IN  <<(s * n) \div g, (s * d) \div g>>

RZero == <<0, 1>>
ROne == <<1, 1>>
RHalf == <<1, 2>>

\* Sums and products cancel common factors first, to keep the integers small.
RAdd(a, b) ==
    IF a[2] = b[2]
    THEN Rat(a[1] + b[1], a[2])
    ELSE LET g == GCD(a[2], b[2])
         IN  Rat(a[1] * (b[2] \div g) + b[1] * (a[2] \div g), (a[2] \div g) * b[2])
RNeg(a) == <<-a[1], a[2]>>
RSub(a, b) == RAdd(a, RNeg(b))
RMul(a, b) ==
    IF a[1] = 0 \/ b[1] = 0 THEN <<0, 1>>
    ELSE IF a = <<1, 1>> THEN b
    ELSE IF b = <<1, 1>> THEN a
    ELSE LET g1 == GCD(Abs(a[1]), b[2])
             g2 == GCD(Abs(b[1]), a[2])
         IN  <<(a[1] \div g1) * (b[1] \div g2), (a[2] \div g2) * (b[2] \div g1)>>
RDiv(a, b) == RMul(a, IF b[1] < 0 THEN <<-b[2], -b[1]>> ELSE <<b[2], b[1]>>)
RLt(a, b) == IF a[2] = b[2] THEN a[1] < b[1] ELSE a[1] * b[2] < b[1] * a[2]
RLe(a, b) == IF a[2] = b[2] THEN a[1] <= b[1] ELSE a[1] * b[2] <= b[1] * a[2]
RMax(a, b) == IF RLt(a, b) THEN b ELSE a

RECURSIVE Pow2(_)
Pow2(n) == IF n = 0 THEN 1 ELSE 2 * Pow2(n - 1)

\* The nearest multiple of 2^-RoundBits (halves round up).
Float(a) ==
    LET q == Pow2(RoundBits)
    IN  Rat((2 * a[1] * q + a[2]) \div (2 * a[2]), q)

\* The smallest positive value Float holds.
FloatTiny == Rat(1, Pow2(RoundBits))

RECURSIVE RSumSeq(_)
RSumSeq(s) == IF s = <<>> THEN RZero ELSE RAdd(Head(s), RSumSeq(Tail(s)))

(***************************************************************************)
(* Log-space operations on the exp-encoding.                               *)
(***************************************************************************)
LogZero == ROne
NegLog2 == RHalf
LogAdd(a, b) == RMul(a, b)
LogSub(a, b) == RDiv(a, b)
LogNeg(a) == <<a[2], a[1]>>
Log1mExp(a) == RSub(ROne, a)
LogSumExp(s) == RSumSeq(s)
Exp(a) == a

(***************************************************************************)
(* Sequence helpers.                                                       *)
(***************************************************************************)
Range(s) == {s[i] : i \in 1 .. Len(s)}

\* Body(v) with v evaluated once.
Bind(v, Body(_)) == CHOOSE r \in {Body(e) : e \in {v}} : TRUE

IndexOf(s, e) == CHOOSE i \in 1 .. Len(s) : s[i] = e

(***************************************************************************)
(* proto.node: the tree.  A node is the sequence of the turns taken from   *)
(* the root (0: left, 1: right); the root is <<>>.                         *)
(***************************************************************************)
RECURSIVE SubtreeNodes(_, _)
SubtreeNodes(node, height) ==
    IF height = 0
    THEN <<[node |-> node, is_leaf |-> TRUE]>>
    ELSE <<[node |-> node, is_leaf |-> FALSE]>>
         \o SubtreeNodes(Append(node, 0), height - 1)
         \o SubtreeNodes(Append(node, 1), height - 1)

\* create_tree(depth, num_classes): the nodes in depth-first order, root first.
create_tree(tree_depth) ==
    LET all == SubtreeNodes(<<>>, tree_depth)
    IN  [root |-> <<>>,
         descendants |-> all,
         left |-> [n \in {all[i].node : i \in {j \in 1 .. Len(all) : ~all[j].is_leaf}}
                     |-> Append(n, 0)],
         right |-> [n \in {all[i].node : i \in {j \in 1 .. Len(all) : ~all[j].is_leaf}}
                     |-> Append(n, 1)]]

\* Node.leaves / Node.descendant_internal_nodes: in depth-first order.
leaves(t) ==
    LET RECURSIVE Pick(_)
        Pick(s) == IF s = <<>> THEN <<>>
                   ELSE IF Head(s).is_leaf THEN <<Head(s).node>> \o Pick(Tail(s))
                   ELSE Pick(Tail(s))
    IN  Pick(t.descendants)

descendant_internal_nodes(t) ==
    LET RECURSIVE Pick(_)
        Pick(s) == IF s = <<>> THEN <<>>
                   ELSE IF ~Head(s).is_leaf THEN <<Head(s).node>> \o Pick(Tail(s))
                   ELSE Pick(Tail(s))
    IN  Pick(t.descendants)

is_leaf(t, n) == n \in Range(leaves(t))
is_internal(t, n) == n \in Range(descendant_internal_nodes(t))
is_right_child(n) == n # <<>> /\ n[Len(n)] = 1

\* A leaf of another tree: the nodes of that tree are the paths below <<2>>, its
\* root, and are no nodes of the tree of this model.
ForeignLeaf == <<2, 0>>

\* Node.ancestors: the internal nodes from the root down to the parent.
ancestors(n) ==
    IF n # <<>> /\ n[1] = 2
    THEN [i \in 1 .. (Len(n) - 1) |-> SubSeq(n, 1, i)]
    ELSE [i \in 1 .. Len(n) |-> SubSeq(n, 1, i - 1)]


(***************************************************************************)
(* The data set and the prototype layer (external collaborators).  An      *)
(* image is an index into ImageSimilarities; row x holds exp(similarity)   *)
(* of image x to the prototypes, repeated cyclically over the prototype    *)
(* indices.  Similarities are distances >= 0, so p_right = exp(-sim) is in *)
(* (0, 1].                                                                 *)
(***************************************************************************)
ImageSimilarities ==
    << <<(<<5, 3>>), (<<1, 1>>), (<<2, 1>>)>>,
       <<(<<2, 1>>), (<<2, 1>>), (<<2, 1>>)>>,
       <<(<<5, 1>>), (<<1, 1>>), (<<1, 1>>)>> >>

Images == 1 .. Len(ImageSimilarities)

\* The label the data set gives each image.
Label(img) == img % NumClasses

\* The batches of inference calls: up to MaxBatch different images, in the
\* order of the data set.
Batches ==
    {x \in UNION {[1 .. b -> Images] : b \in 1 .. MaxBatch} :
        \A i \in 1 .. (Len(x) - 1) : x[i] < x[i + 1]}

\* The batches of the training loader: the data set in order, MaxBatch at a time.
TrainBatches ==
    {[i \in 1 .. (IF k + MaxBatch - 1 <= Len(ImageSimilarities)
                  THEN MaxBatch ELSE Len(ImageSimilarities) - k + 1) |-> k + i - 1]
       : k \in {j \in Images : (j - 1) % MaxBatch = 0}}

Strategies == {"distributed", "sample_max", "greedy", "random"}

EwmaAlphas == {(<<1, 3>>), (<<1, 2>>), (<<1, 1>>)}
InitDistParams == {RZero, ROne}

VARIABLES
    depth,                    \* the depth the model was constructed with
    tree_root,                \* TreeSection.tree_root
    node_to_proto_idx,        \* TreeSection.node_to_proto_idx
    leaf_opt_ewma_alpha,      \* TreeSection.leaf_opt_ewma_alpha
    training,                 \* nn.Module.training
    dist_params,              \* Leaf.dist_params, per leaf
    dist_param_update_count,  \* Leaf.dist_param_update_count, per leaf
    call,                     \* the last call of the model and what it returned
    epoch,                    \* the epoch of the last call of freeze, 0 before the first
    freeze_epochs,            \* the freeze_epochs the training run is configured with
    params_to_freeze,         \* the parameters the run hands to freeze
    requires_grad             \* parameter.requires_grad, per parameter of the network

\* The state of the freezing schedule of the backbone (util.net.freeze).
FreezeVars == <<epoch, freeze_epochs, params_to_freeze, requires_grad>>

vars == <<depth, tree_root, node_to_proto_idx, leaf_opt_ewma_alpha, training,
          dist_params, dist_param_update_count, call, FreezeVars>>

\* Python's None where a value is a tensor, a list or a dict; batches are never
\* empty, so the empty sequence stands for no other value.
None == << >>
\* The outcome of a call that raised no exception.
NoError == "NoError"

(***************************************************************************)
(* ProtoTree.__init__ / TreeSection.__init__                               *)
(***************************************************************************)
num_prototypes(tree_depth) == Pow2(tree_depth) - 1

\* Faulty variant: the tree is built one level too deep.
TreeSection_tree_root_too_deep(tree_depth) == create_tree(tree_depth + 1)

TreeSection_tree_root(tree_depth) == create_tree(tree_depth)

\* Faulty variant: the indices are given to all nodes of the tree, leaves included.
TreeSection_node_to_proto_idx_all_nodes(root) ==
    [node \in {root.descendants[k].node : k \in 1 .. Len(root.descendants)} |->
        (CHOOSE k \in 1 .. Len(root.descendants) : root.descendants[k].node = node) - 1]

TreeSection_node_to_proto_idx(root) ==
    LET internal == descendant_internal_nodes(root)
    IN  [node \in Range(internal) |-> IndexOf(internal, node) - 1]

\* create_tree(depth, num_classes) accepts a depth of at least 1 only.
create_tree_error(tree_depth) == IF tree_depth < 1 THEN "DomainError" ELSE NoError

\* The tree section a constructor call builds: the fields of the new object.
TreeSection_fields(tree_depth, ewma_alpha_arg) ==
    [depth |-> tree_depth,
     tree_root |-> TreeSection_tree_root(tree_depth),
     node_to_proto_idx |-> TreeSection_node_to_proto_idx(TreeSection_tree_root(tree_depth)),
     leaf_opt_ewma_alpha |-> ewma_alpha_arg]

\* Faulty variant: a depth below 1 is taken as 0 and the section is returned.
TreeSection_init_unchecked(tree_depth, ewma_alpha_arg) ==
    [raised |-> NoError,
     value |-> TreeSection_fields(IF tree_depth < 1 THEN 0 ELSE tree_depth, ewma_alpha_arg)]

\* TreeSection.__init__: an error of create_tree ends the construction.
TreeSection_init(tree_depth, ewma_alpha_arg) ==
    IF create_tree_error(tree_depth) # NoError
    THEN [raised |-> create_tree_error(tree_depth), value |-> None]
    ELSE [raised |-> NoError, value |-> TreeSection_fields(tree_depth, ewma_alpha_arg)]

\* ProtoTree.__init__: the prototype layer for 2**depth - 1 prototypes, then the
\* tree section.
ProtoTree_init(tree_depth, ewma_alpha_arg) ==
    Bind(TreeSection_init(tree_depth, ewma_alpha_arg),
         LAMBDA r :
            IF r.raised # NoError THEN r
            ELSE [raised |-> NoError,
                  value |-> r.value @@ [num_prototypes |-> num_prototypes(r.value.depth)]])

\* The depths a caller hands to the constructor.
ConstructDepths == -1 .. MaxDepth

\* ProtoBase.forward(x): shape (batch, num_prototypes), channel i at position i + 1.
proto_base_forward(x) ==
    LET n == Cardinality(DOMAIN node_to_proto_idx)
    IN  [s \in 1 .. Len(x) |->
            [i \in 1 .. n |-> ImageSimilarities[x[s]][((i - 1) % Len(ImageSimilarities[x[s]])) + 1]]]

(***************************************************************************)
(* proto.node: NodeProbabilities and the leaves' class vectors.            *)
(***************************************************************************)
log_p_left(probs) == [s \in 1 .. Len(probs.log_p_right) |-> Log1mExp(probs.log_p_right[s])]

log_p_arrival_left(probs) ==
    [s \in 1 .. Len(probs.log_p_arrival) |->
        LogAdd(probs.log_p_arrival[s], log_p_left(probs)[s])]

log_p_arrival_right(probs) ==
    [s \in 1 .. Len(probs.log_p_arrival) |->
        LogAdd(probs.log_p_arrival[s], probs.log_p_right[s])]

batch_size(probs) == Len(probs.log_p_arrival)

\* Leaf.y_logits(): the leaf's class distribution in log space, a normalisation
\* of dist_params that is positive on every class.
y_logits(params) ==
    LET total == RSumSeq([i \in 1 .. NumClasses |-> params[i - 1]])
    IN  [c \in Classes |->
            RMax(FloatTiny,
                 Float(RDiv(RAdd(ROne, params[c]), RAdd(Rat(NumClasses, 1), total))))]

\* InternalNode.forward(node_to_probs): per sample, the log of the sum over the
\* leaves of exp(log_p_arrival) times the leaf's class probabilities.
InternalNode_forward(root, node_to_probs) ==
    Bind(<<leaves(root), node_to_probs,
           [l \in Range(leaves(root)) |-> y_logits(dist_params[l])]>>,
         LAMBDA b :
            [s \in 1 .. batch_size(b[2][root.root]) |->
                [c \in Classes |->
                    LogSumExp([k \in 1 .. Len(b[1]) |->
                        LogAdd(b[2][b[1][k]].log_p_arrival[s], b[3][b[1][k]][c])])]])

(***************************************************************************)
(* TreeSection: probability propagation.                                   *)
(***************************************************************************)
get_node_to_log_p_right(similarities) ==
    [node \in DOMAIN node_to_proto_idx |->
        [s \in 1 .. Len(similarities) |->
            LogNeg(similarities[s][node_to_proto_idx[node] + 1])]]

DictGet(d, k) == IF k \in DOMAIN d THEN d[k] ELSE None

\* Faulty variant: the root's arrival is initialised with its routing probability.
RootProbs_not_zero(root_log_p_right) ==
    [log_p_arrival |-> root_log_p_right, log_p_right |-> root_log_p_right]

RootProbs(root_log_p_right) ==
    [log_p_arrival |-> [s \in 1 .. Len(root_log_p_right) |-> LogZero],
     log_p_right |-> root_log_p_right]

\* Faulty variant: the two children receive each other's arrival probability.
ChildProbs_swapped(n_probs, node_to_log_p_right, root, node) ==
    (root.left[node] :> [log_p_arrival |-> log_p_arrival_right(n_probs),
                         log_p_right |-> DictGet(node_to_log_p_right, root.left[node])])
    @@
    (root.right[node] :> [log_p_arrival |-> log_p_arrival_left(n_probs),
                          log_p_right |-> DictGet(node_to_log_p_right, root.right[node])])

ChildProbs(n_probs, node_to_log_p_right, root, node) ==
    (root.left[node] :> [log_p_arrival |-> log_p_arrival_left(n_probs),
                         log_p_right |-> DictGet(node_to_log_p_right, root.left[node])])
    @@
    (root.right[node] :> [log_p_arrival |-> log_p_arrival_right(n_probs),
                          log_p_right |-> DictGet(node_to_log_p_right, root.right[node])])

RECURSIVE add_strict_descendants(_, _, _, _)
add_strict_descendants(result, node_to_log_p_right, root, node) ==
    IF node \notin DOMAIN root.left
    THEN result
    ELSE Bind(ChildProbs(result[node], node_to_log_p_right, root, node) @@ result,
              LAMBDA with_children :
                 Bind(add_strict_descendants(with_children, node_to_log_p_right, root,
                                             root.left[node]),
                      LAMBDA with_left :
                         add_strict_descendants(with_left, node_to_log_p_right, root,
                                                root.right[node])))

node_to_probs_from_p_right(node_to_log_p_right, root) ==
    Bind(<<node_to_log_p_right, root>>,
         LAMBDA b :
            add_strict_descendants((b[2].root :> RootProbs(b[1][b[2].root])),
                                   b[1], b[2], b[2].root))

get_node_to_probs(similarities) ==
    node_to_probs_from_p_right(get_node_to_log_p_right(similarities), tree_root)

(***************************************************************************)
(* TreeSection: the single-leaf strategies.                                *)
(***************************************************************************)
\* Faulty variant: the walk goes left when the two children are equally likely.
RECURSIVE get_leaf_for_sample_left_on_tie(_, _, _, _)
get_leaf_for_sample_left_on_tie(root, node_to_probs, cur_node, sample_idx) ==
    IF cur_node \notin DOMAIN root.left
    THEN cur_node
    ELSE IF RLe(NegLog2, log_p_left(node_to_probs[cur_node])[sample_idx])
         THEN get_leaf_for_sample_left_on_tie(root, node_to_probs, root.left[cur_node],
                                              sample_idx)
         ELSE get_leaf_for_sample_left_on_tie(root, node_to_probs, root.right[cur_node],
                                              sample_idx)

\* Faulty variant: the walk takes the right child at every node.
RECURSIVE get_leaf_for_sample_always_right(_, _, _, _)
get_leaf_for_sample_always_right(root, node_to_probs, cur_node, sample_idx) ==
    IF cur_node \notin DOMAIN root.left
    THEN cur_node
    ELSE get_leaf_for_sample_always_right(root, node_to_probs, root.right[cur_node],
                                          sample_idx)

RECURSIVE get_leaf_for_sample(_, _, _, _)
get_leaf_for_sample(root, node_to_probs, cur_node, sample_idx) ==
    IF cur_node \notin DOMAIN root.left
    THEN cur_node
    ELSE IF RLt(NegLog2, log_p_left(node_to_probs[cur_node])[sample_idx])
         THEN get_leaf_for_sample(root, node_to_probs, root.left[cur_node], sample_idx)
         ELSE get_leaf_for_sample(root, node_to_probs, root.right[cur_node], sample_idx)

\* Faulty variant: every sample is walked with the probabilities of the first sample.
get_predicting_leaves_greedily_first_sample(root, node_to_probs) ==
    [i \in 1 .. batch_size(node_to_probs[root.root]) |->
        get_leaf_for_sample(root, node_to_probs, root.root, 1)]

get_predicting_leaves_greedily(root, node_to_probs) ==
    [i \in 1 .. batch_size(node_to_probs[root.root]) |->
        get_leaf_for_sample(root, node_to_probs, root.root, i)]

\* Faulty variant: the index of the last maximal value.
argmax_last(row) ==
    CHOOSE i \in 1 .. Len(row) :
        /\ \A j \in 1 .. Len(row) : RLe(row[j], row[i])
        /\ \A j \in (i + 1) .. Len(row) : RLt(row[j], row[i])

\* torch.argmax: the index of the first maximal value.
argmax(row) ==
    CHOOSE i \in 1 .. Len(row) :
        /\ \A j \in 1 .. Len(row) : RLe(row[j], row[i])
        /\ \A j \in 1 .. (i - 1) : RLt(row[j], row[i])

get_max_p_arrival_leaves(ls, node_to_probs) ==
    LET n == Len(node_to_probs[ls[1]].log_p_arrival)
        log_p_arrivals ==
            [s \in 1 .. n |-> [k \in 1 .. Len(ls) |-> node_to_probs[ls[k]].log_p_arrival[s]]]
    IN  [s \in 1 .. n |-> Bind(log_p_arrivals[s], LAMBDA row : ls[argmax(row)])]

\* Faulty variant: greedy selects by arrival probability, as sample_max does.
get_predicting_leaves_greedy_by_arrival(root, node_to_probs, sampling_strategy) ==
    IF sampling_strategy \in {"sample_max", "greedy"}
    THEN [raised |-> NoError,
          value |-> get_max_p_arrival_leaves(leaves(root), node_to_probs)]
    ELSE [raised |-> "ValueError", value |-> None]

get_predicting_leaves(root, node_to_probs, sampling_strategy) ==
    IF sampling_strategy = "sample_max"
    THEN [raised |-> NoError,
          value |-> get_max_p_arrival_leaves(leaves(root), node_to_probs)]
    ELSE IF sampling_strategy = "greedy"
    THEN [raised |-> NoError,
          value |-> get_predicting_leaves_greedily(root, node_to_probs)]
    ELSE [raised |-> "ValueError", value |-> None]

(***************************************************************************)
(* ProtoTree.forward                                                       *)
(***************************************************************************)
\* Faulty variant: the single-leaf strategies select their leaves but answer with
\* the logits of the whole tree.
forward_hard_with_tree_logits(x, strategy) ==
    LET similarities == proto_base_forward(x)
        node_to_probs == get_node_to_probs(similarities)
    IN  IF strategy = "distributed"
        THEN [raised |-> NoError,
              logits |-> InternalNode_forward(tree_root, node_to_probs),
              node_to_probs |-> node_to_probs,
              predicting_leaves |-> None]
        ELSE IF training = FALSE /\ strategy \in {"sample_max", "greedy"}
        THEN [raised |-> NoError,
              logits |-> InternalNode_forward(tree_root, node_to_probs),
              node_to_probs |-> node_to_probs,
              predicting_leaves |->
                  get_predicting_leaves(tree_root, node_to_probs, strategy).value]
        ELSE [raised |-> "ValueError", logits |-> None, node_to_probs |-> None,
              predicting_leaves |-> None]

\* Faulty variant: in eval mode "distributed" answers with the logits of the most likely
\* leaf of each sample.
forward_single_leaf_in_eval(x, strategy) ==
    LET similarities == proto_base_forward(x)
        node_to_probs == get_node_to_probs(similarities)
    IN  IF strategy = "distributed" /\ training
        THEN [raised |-> NoError,
              logits |-> InternalNode_forward(tree_root, node_to_probs),
              node_to_probs |-> node_to_probs,
              predicting_leaves |-> None]
        ELSE IF strategy = "distributed"
        THEN LET predicting_leaves ==
                     get_predicting_leaves(tree_root, node_to_probs, "sample_max").value
             IN  [raised |-> NoError,
                  logits |-> [i \in 1 .. Len(predicting_leaves) |->
                                 y_logits(dist_params[predicting_leaves[i]])],
                  node_to_probs |-> node_to_probs,
                  predicting_leaves |-> None]
        ELSE IF training = FALSE /\ strategy \in {"sample_max", "greedy"}
        THEN LET predicting_leaves ==
                     get_predicting_leaves(tree_root, node_to_probs, strategy).value
             IN  [raised |-> NoError,
                  logits |-> [i \in 1 .. Len(predicting_leaves) |->
                                 y_logits(dist_params[predicting_leaves[i]])],
                  node_to_probs |-> node_to_probs,
                  predicting_leaves |-> predicting_leaves]
        ELSE [raised |-> "ValueError", logits |-> None, node_to_probs |-> None,
              predicting_leaves |-> None]

\* Faulty variant: a name that is no single-leaf strategy is served as "distributed".
forward_silent_fallback(x, strategy) ==
    LET similarities == proto_base_forward(x)
        node_to_probs == get_node_to_probs(similarities)
    IN  IF strategy \notin {"sample_max", "greedy"}
        THEN [raised |-> NoError,
              logits |-> InternalNode_forward(tree_root, node_to_probs),
              node_to_probs |-> node_to_probs,
              predicting_leaves |-> None]
        ELSE IF training = FALSE
        THEN LET predicting_leaves ==
                     get_predicting_leaves(tree_root, node_to_probs, strategy).value
             IN  [raised |-> NoError,
                  logits |-> [i \in 1 .. Len(predicting_leaves) |->
                                 y_logits(dist_params[predicting_leaves[i]])],
                  node_to_probs |-> node_to_probs,
                  predicting_leaves |-> predicting_leaves]
        ELSE [raised |-> "ValueError", logits |-> None, node_to_probs |-> None,
              predicting_leaves |-> None]

\* ProtoTree.forward for a model whose nn.Module.training is mode.
forward_in_mode(mode, x, strategy) ==
    LET similarities == proto_base_forward(x)
        node_to_probs == get_node_to_probs(similarities)
    IN  IF strategy = "distributed"
        THEN [raised |-> NoError,
              logits |-> InternalNode_forward(tree_root, node_to_probs),
              node_to_probs |-> node_to_probs,
              predicting_leaves |-> None]
        ELSE IF mode = FALSE /\ strategy \in {"sample_max", "greedy"}
        THEN LET predicting_leaves ==
                     get_predicting_leaves(tree_root, node_to_probs, strategy).value
             IN  [raised |-> NoError,
                  logits |-> [i \in 1 .. Len(predicting_leaves) |->
                                 y_logits(dist_params[predicting_leaves[i]])],
                  node_to_probs |-> node_to_probs,
                  predicting_leaves |-> predicting_leaves]
        ELSE [raised |-> "ValueError", logits |-> None, node_to_probs |-> None,
              predicting_leaves |-> None]

forward(x, strategy) == forward_in_mode(training, x, strategy)

(***************************************************************************)
(* ProtoTree: predict, explain, rationalize, log_state.                    *)
(***************************************************************************)
\* logits.argmax(dim=1) on one row: the first class with the largest logit.
class_argmax(row) == argmax([k \in 1 .. NumClasses |-> row[k - 1]]) - 1

predict_logits(x, strategy) ==
    Bind(forward(x, strategy), LAMBDA r : [raised |-> r.raised, value |-> r.logits])

predict(x, strategy) ==
    Bind(predict_logits(x, strategy),
         LAMBDA r :
            IF r.raised # NoError THEN r
            ELSE [raised |-> NoError,
                  value |-> [s \in 1 .. Len(r.value) |-> class_argmax(r.value[s])]])

\* logits.softmax(dim=1)
predict_probs(x, strategy) ==
    Bind(predict_logits(x, strategy),
         LAMBDA r :
            IF r.raised # NoError THEN r
            ELSE [raised |-> NoError,
                  value |-> [s \in 1 .. Len(r.value) |->
                      Bind(RSumSeq([k \in 1 .. NumClasses |-> Exp(r.value[s][k - 1])]),
                           LAMBDA total :
                              [c \in Classes |-> RDiv(Exp(r.value[s][c]), total)])]])

\* img_proto_similarity(leaf_ancestor, x_i, node_distances, patches_i): the
\* evidence of one ancestor for one image, taken from the distances of the
\* ancestor's prototype.
img_proto_similarity(leaf_ancestor, x_i, node_proto_idx) ==
    [internal_node |-> leaf_ancestor, image |-> x_i, proto_idx |-> node_proto_idx]

Min(a, b) == IF a < b THEN a ELSE b

\* Faulty variant: the evidence is collected from the parent up to the root.
ancestor_similarities_of_leaf_to_root(x_i, predicting_leaf) ==
    LET leaf_ancestors == ancestors(predicting_leaf)
        n == Len(leaf_ancestors)
    IN  [k \in 1 .. n |->
            img_proto_similarity(leaf_ancestors[n + 1 - k], x_i,
                                 node_to_proto_idx[leaf_ancestors[n + 1 - k]])]

\* The evidence list of one (image, leaf) pair, in the order of leaf.ancestors.
ancestor_similarities_of(x_i, predicting_leaf) ==
    LET leaf_ancestors == ancestors(predicting_leaf)
    IN  [k \in 1 .. Len(leaf_ancestors) |->
            img_proto_similarity(leaf_ancestors[k], x_i,
                                 node_to_proto_idx[leaf_ancestors[k]])]

\* self.tree_section.node_to_proto_idx[leaf_ancestor] raises KeyError for a node
\* that is no key of the dict; zip stops at the shortest of its arguments.
rationalize_key_error(x, predicting_leaves) ==
    \E i \in 1 .. Min(Len(x), Len(predicting_leaves)) :
        \E k \in 1 .. Len(ancestors(predicting_leaves[i])) :
            ancestors(predicting_leaves[i])[k] \notin DOMAIN node_to_proto_idx

rationalize(x, predicting_leaves) ==
    IF rationalize_key_error(x, predicting_leaves)
    THEN [raised |-> "KeyError", value |-> None]
    ELSE [raised |-> NoError,
          value |-> [i \in 1 .. Min(Len(x), Len(predicting_leaves)) |->
                        [ancestor_similarities |->
                             ancestor_similarities_of(x[i], predicting_leaves[i]),
                         leaf |-> predicting_leaves[i]]]]

\* Leaf.predicted_label / Leaf.conf_predicted_label: the most likely class of the
\* leaf and its probability.
predicted_label(leaf) == class_argmax(y_logits(dist_params[leaf]))
conf_predicted_label(leaf) == Exp(y_logits(dist_params[leaf])[predicted_label(leaf)])

RECURSIVE Flatten(_)
Flatten(seqs) == IF seqs = <<>> THEN <<>> ELSE Head(seqs) \o Flatten(Tail(seqs))

\* rationalize of prototree/models.py: the rationalization is built and appended
\* inside the loop over the ancestors, every time around the same list object.
prototree_rationalize(x, predicting_leaves) ==
    IF rationalize_key_error(x, predicting_leaves)
    THEN [raised |-> "KeyError", value |-> None]
    ELSE [raised |-> NoError,
          value |-> Flatten([i \in 1 .. Min(Len(x), Len(predicting_leaves)) |->
                        [k \in 1 .. Len(ancestors(predicting_leaves[i])) |->
                            [ancestor_similarities |->
                                 ancestor_similarities_of(x[i], predicting_leaves[i]),
                             label |-> predicted_label(predicting_leaves[i])]]])]

\* Faulty variant: the flag of an entry is that of its own node, not of the next.
proto_presents_no_offset(rationalization) ==
    [k \in 1 .. Len(rationalization.ancestor_similarities) |->
        is_right_child(rationalization.ancestor_similarities[k].internal_node)]

\* LeafRationalization.proto_presents
proto_presents(rationalization) ==
    LET ancestor_similarities == rationalization.ancestor_similarities
        internal_children ==
            IF ancestor_similarities = <<>> THEN <<>>
            ELSE [k \in 1 .. (Len(ancestor_similarities) - 1) |->
                     ancestor_similarities[k + 1].internal_node]
        ancestor_children == internal_children \o <<rationalization.leaf>>
    IN  [k \in 1 .. Len(ancestor_children) |-> is_right_child(ancestor_children[k])]

\* explain: forward, then rationalize on the predicting leaves; zip over None
\* raises TypeError.
explain(x, strategy) ==
    Bind(forward(x, strategy),
         LAMBDA r :
            IF r.raised # NoError
            THEN [r EXCEPT !.predicting_leaves = None] @@ [leaf_explanations |-> None]
            ELSE IF strategy = "distributed"
            THEN [raised |-> "TypeError", logits |-> None, node_to_probs |-> None,
                  predicting_leaves |-> None, leaf_explanations |-> None]
            ELSE r @@ [leaf_explanations |-> rationalize(x, r.predicting_leaves).value])

\* explain of prototree/models.py: forward, then that module's rationalize.
prototree_explain(x, sampling_strategy) ==
    Bind(forward(x, sampling_strategy),
         LAMBDA r :
            IF r.raised # NoError
            THEN [r EXCEPT !.predicting_leaves = None] @@ [leaf_rationalizations |-> None]
            ELSE IF sampling_strategy = "distributed"
            THEN [raised |-> "TypeError", logits |-> None, node_to_probs |-> None,
                  predicting_leaves |-> None, leaf_rationalizations |-> None]
            ELSE r @@ [leaf_rationalizations |->
                           prototree_rationalize(x, r.predicting_leaves).value])

\* The threshold above which a leaf counts as confident.
leaf_pruning_threshold == RHalf

\* TreeSection.log_leaves_properties: what log_state reports.
log_leaves_properties ==
    LET classes_covered == {predicted_label(leaf) : leaf \in Range(leaves(tree_root))}
    IN  [n_leaves_above_threshold |->
             Cardinality({leaf \in Range(leaves(tree_root)) :
                             RLt(leaf_pruning_threshold, conf_predicted_label(leaf))}),
         class_labels_without_leaf |-> Classes \ classes_covered]

\* Faulty variant: forward switches the model to eval mode.
state_after_inference_eval_mode(op) ==
    [training |-> IF op = "forward" THEN FALSE ELSE training,
     dist_params |-> dist_params,
     dist_param_update_count |-> dist_param_update_count]

\* Faulty variant: log_state counts its visit of the leaves as an update.
state_after_inference_counted(op) ==
    [training |-> training,
     dist_params |-> dist_params,
     dist_param_update_count |->
         [l \in DOMAIN dist_param_update_count |->
             IF op = "log_state" THEN dist_param_update_count[l] + 1
             ELSE dist_param_update_count[l]]]

\* What an inference operation leaves of the mutable state of the model: none of
\* them assigns self.training or writes to a leaf.
state_after_inference(op) ==
    [training |-> training,
     dist_params |-> dist_params,
     dist_param_update_count |-> dist_param_update_count]

(***************************************************************************)
(* TreeSection: the leaf distribution learner.                             *)
(***************************************************************************)
\* torch.log(F.one_hot(y_true)): 0 on the true class, -inf elsewhere.
y_true_logits_of(y_true) ==
    [s \in 1 .. Len(y_true) |-> [c \in Classes |-> IF y_true[s] = c THEN LogZero ELSE RZero]]

\* exp(logsumexp(log_p_arrival + leaf_logits + y_true_logits - logits, dim=0))
leaf_dist_update(leaf, node_to_prob, logits, y_true_logits) ==
    LET log_p_arrival == node_to_prob[leaf].log_p_arrival
        leaf_logits == y_logits(dist_params[leaf])
    IN  [c \in Classes |->
            Exp(LogSumExp([s \in 1 .. Len(log_p_arrival) |->
                Float(LogSub(LogAdd(LogAdd(log_p_arrival[s], leaf_logits[c]),
                                    y_true_logits[s][c]),
                             logits[s][c]))]))]

\* Faulty variant: the configured weight is used from the first update on.
ewma_alpha_configured(update_count) == leaf_opt_ewma_alpha

\* Faulty variant: the weight keeps falling with the count.
ewma_alpha_count_only(update_count) == Rat(1, update_count)

ewma_alpha(update_count) == RMax(Rat(1, update_count), leaf_opt_ewma_alpha)

\* leaf.dist_params.mul_(1.0 - alpha); leaf.dist_params.add_(dist_update)
ewma_step(params, dist_update, alpha) ==
    [c \in Classes |-> RAdd(RMul(params[c], RSub(ROne, alpha)), dist_update[c])]

update_leaf_distribution(leaf, node_to_prob, logits, y_true_logits) ==
    LET dist_update == leaf_dist_update(leaf, node_to_prob, logits, y_true_logits)
        update_count == dist_param_update_count[leaf] + 1
        alpha == ewma_alpha(update_count)
    IN  [dist_param_update_count |-> update_count,
         dist_update |-> dist_update,
         dist_params |-> ewma_step(dist_params[leaf], dist_update, alpha)]

\* Faulty variant: leaves that no sample of the batch reaches are skipped.
update_leaf_distributions_skip_unreached(y_true, logits, node_to_prob) ==
    [leaf \in {l \in Range(leaves(tree_root)) :
                  \E s \in 1 .. Len(y_true) : node_to_prob[l].log_p_arrival[s] # RZero} |->
        update_leaf_distribution(leaf, node_to_prob, logits, y_true_logits_of(y_true))]

\* The leaves' new state, for the leaves the loop of update_leaf_distributions visits.
update_leaf_distributions(y_true, logits, node_to_prob) ==
    [leaf \in Range(leaves(tree_root)) |->
        update_leaf_distribution(leaf, node_to_prob, logits, y_true_logits_of(y_true))]

(***************************************************************************)
(* ProtoTree.training_step and validation_step.                            *)
(***************************************************************************)
\* F.nll_loss(logits, y) as isnan sees it.  The loss is not finite when the
\* backbone hands over activations that are not; the model does not compute
\* them, so the loss of a batch is an input of the step.
Losses == {"finite", "nan", "inf"}
isnan(loss) == loss = "nan"

\* Faulty variant: the leaves are updated before and after the optimizer step.
training_step_updates_twice(x, y, loss) ==
    LET r == forward(x, "distributed")
        once == update_leaf_distributions(y, r.logits, r.node_to_probs)
    IN  IF isnan(loss)
        THEN [raised |-> "ValueError", events |-> <<"forward">>,
              logits |-> r.logits, node_to_probs |-> r.node_to_probs,
              new |-> [l \in {} |-> None]]
        ELSE [raised |-> NoError,
              events |-> <<"forward", "update_leaf_distributions", "optimizer_step",
                           "update_leaf_distributions">>,
              logits |-> r.logits, node_to_probs |-> r.node_to_probs,
              new |-> [l \in DOMAIN once |->
                          [once[l] EXCEPT !.dist_param_update_count = @ + 1]]]

\* The calls training_step makes, in order, and the leaf state it leaves.
training_step(x, y, loss) ==
    Bind(forward(x, "distributed"),
         LAMBDA r :
            IF isnan(loss)
            THEN [raised |-> "ValueError", events |-> <<"forward">>,
                  logits |-> r.logits, node_to_probs |-> r.node_to_probs,
                  new |-> [l \in {} |-> None]]
            ELSE [raised |-> NoError,
                  events |-> <<"forward", "optimizer_step", "update_leaf_distributions">>,
                  logits |-> r.logits, node_to_probs |-> r.node_to_probs,
                  new |-> update_leaf_distributions(y, r.logits, r.node_to_probs)])

\* validation_step: the accuracy of predict(x, strategy="distributed").
validation_step(x, y) ==
    Bind(predict(x, "distributed"),
         LAMBDA r :
            [raised |-> r.raised, events |-> <<"predict">>,
             acc |-> Rat(Cardinality({s \in 1 .. Len(x) : r.value[s] = y[s]}), Len(x))])

(***************************************************************************)
(* core.eval: eval_model, eval_prototree_model, eval_fidelity.  A loader   *)
(* is a sequence of batches; the label of an image is that of the data set. *)
(***************************************************************************)
\* The training loader: the batches of the data set in order.
TrainLoader ==
    [k \in 1 .. ((Len(ImageSimilarities) + MaxBatch - 1) \div MaxBatch) |->
        CHOOSE b \in TrainBatches : b[1] = (k - 1) * MaxBatch + 1]

\* The loaders evaluation is run on: the data set, or one batch of it.
Loaders == {TrainLoader} \cup {<<b>> : b \in TrainBatches}

\* (y_pred == y).sum().item() / len(y)
batch_acc(y_pred, x) ==
    Rat(Cardinality({s \in 1 .. Len(x) : y_pred[s] = Label(x[s])}), Len(x))

\* The loop of eval_prototree_model from batch batch_num on, for a model in the
\* given mode: forward, with explain the explanation of the batch (which asserts
\* a batch size of 1), then the accuracy of the batch.
RECURSIVE eval_prototree_batches(_, _, _, _, _, _)
eval_prototree_batches(mode, loader, strategy, explain_flag, batch_num, total_acc) ==
    IF batch_num > Len(loader)
    THEN [raised |-> NoError, events |-> <<>>, total_acc |-> total_acc]
    ELSE Bind(forward_in_mode(mode, loader[batch_num], strategy),
              LAMBDA r :
                 IF r.raised # NoError
                 THEN [raised |-> r.raised, events |-> <<"forward">>, total_acc |-> total_acc]
                 ELSE IF explain_flag /\ Len(loader[batch_num]) # 1
                 THEN [raised |-> "AssertionError", events |-> <<"forward">>,
                       total_acc |-> total_acc]
                 ELSE Bind(eval_prototree_batches(
                               mode, loader, strategy, explain_flag, batch_num + 1,
                               RAdd(total_acc,
                                    batch_acc([s \in 1 .. Len(r.logits) |->
                                                  class_argmax(r.logits[s])],
                                              loader[batch_num]))),
                           LAMBDA rest : [rest EXCEPT !.events = <<"forward">> \o @]))

\* Faulty variant: the model is evaluated in the mode it is in.
eval_prototree_model_in_current_mode(loader, strategy, explain_flag) ==
    Bind(eval_prototree_batches(training, loader, strategy, explain_flag, 1, RZero),
         LAMBDA r :
            [raised |-> r.raised, events |-> r.events, training |-> training,
             value |-> IF r.raised # NoError THEN None
                       ELSE [avg_acc |-> RDiv(r.total_acc, Rat(Len(loader), 1)),
                             df_explanations |-> explain_flag]])

\* eval_prototree_model: model.eval(), the loop, total_acc / n_batches; with
\* explain the data frame of the explanations is returned as well.
eval_prototree_model(loader, strategy, explain_flag) ==
    Bind(eval_prototree_batches(FALSE, loader, strategy, explain_flag, 1, RZero),
         LAMBDA r :
            [raised |-> r.raised, events |-> <<"eval">> \o r.events, training |-> FALSE,
             value |-> IF r.raised # NoError THEN None
                       ELSE [avg_acc |-> RDiv(r.total_acc, Rat(Len(loader), 1)),
                             df_explanations |-> explain_flag]])

\* eval_model on a ProtoTree: eval_prototree_model with the same arguments.
eval_model(loader, strategy, explain_flag) ==
    eval_prototree_model(loader, strategy, explain_flag)

\* tree.predict(x, strategy) for a model in the given mode.
predict_in_mode(mode, x, strategy) ==
    Bind(forward_in_mode(mode, x, strategy),
         LAMBDA r :
            IF r.raised # NoError THEN [raised |-> r.raised, value |-> None]
            ELSE [raised |-> NoError,
                  value |-> [s \in 1 .. Len(r.logits) |-> class_argmax(r.logits[s])]])

\* The loop of eval_fidelity from batch batch_num on.
RECURSIVE eval_fidelity_batches(_, _, _, _, _)
eval_fidelity_batches(loader, test_strategy, ref_strategy, batch_num, avg_fidelity) ==
    IF batch_num > Len(loader)
    THEN [raised |-> NoError, events |-> <<>>, avg_fidelity |-> avg_fidelity]
    ELSE Bind(predict_in_mode(FALSE, loader[batch_num], ref_strategy),
              LAMBDA y_pred_reference :
                 IF y_pred_reference.raised # NoError
                 THEN [raised |-> y_pred_reference.raised, events |-> <<"predict">>,
                       avg_fidelity |-> avg_fidelity]
                 ELSE Bind(predict_in_mode(FALSE, loader[batch_num], test_strategy),
                           LAMBDA y_pred_test :
                              IF y_pred_test.raised # NoError
                              THEN [raised |-> y_pred_test.raised,
                                    events |-> <<"predict", "predict">>,
                                    avg_fidelity |-> avg_fidelity]
                              ELSE Bind(eval_fidelity_batches(
                                            loader, test_strategy, ref_strategy, batch_num + 1,
                                            RAdd(avg_fidelity,
                                                 Rat(Cardinality(
                                                         {s \in 1 .. Len(loader[batch_num]) :
                                                             y_pred_reference.value[s] =
                                                                 y_pred_test.value[s]}),
                                                     Len(loader[batch_num]) * Len(loader)))),
                                        LAMBDA rest :
                                           [rest EXCEPT
                                              !.events = <<"predict", "predict">> \o @])))

\* eval_fidelity: tree.eval(), then the share of samples on which the test
\* strategy predicts what the reference strategy predicts.
eval_fidelity(loader, test_strategy, ref_strategy) ==
    Bind(eval_fidelity_batches(loader, test_strategy, ref_strategy, 1, RZero),
         LAMBDA r :
            [raised |-> r.raised, events |-> <<"eval">> \o r.events, training |-> FALSE,
             value |-> IF r.raised # NoError THEN None ELSE r.avg_fidelity])

(***************************************************************************)
(* util.net.freeze: the freezing schedule of the pretrained parameters.    *)
(***************************************************************************)
Params == 1 .. NumParams

\* Faulty variant: the parameters are released by the call for epoch freeze_epochs.
freeze_released_one_epoch_early(ep, to_freeze, n_freeze_epochs, grad) ==
    IF n_freeze_epochs > 0
    THEN IF ep = 1
         THEN [q \in Params |-> IF q \in to_freeze THEN FALSE ELSE grad[q]]
         ELSE IF ep = n_freeze_epochs
         THEN [q \in Params |-> IF q \in to_freeze THEN TRUE ELSE grad[q]]
         ELSE grad
    ELSE grad

\* freeze(epoch, params_to_freeze, log, freeze_epochs): requires_grad after the call.
freeze(ep, to_freeze, n_freeze_epochs, grad) ==
    IF n_freeze_epochs > 0
    THEN IF ep = 1
         THEN [q \in Params |-> IF q \in to_freeze THEN FALSE ELSE grad[q]]
         ELSE IF ep = n_freeze_epochs + 1
         THEN [q \in Params |-> IF q \in to_freeze THEN TRUE ELSE grad[q]]
         ELSE grad
    ELSE grad

(***************************************************************************)
(* The state machine.                                                      *)
(***************************************************************************)
NoCall ==
    [op |-> "none", strategy |-> "none", x |-> <<>>, training |-> TRUE, raised |-> NoError,
     logits |-> None, node_to_probs |-> None, predicting_leaves |-> None,
     old_dist_params |-> None, old_update_count |-> None, dist_update |-> None,
     returned |-> None, events |-> <<>>, loss |-> "none", y_true |-> <<>>,
     depth_arg |-> 0, loader |-> <<>>, explain |-> FALSE]

Init ==
    /\ depth \in 1 .. MaxDepth
    /\ tree_root = TreeSection_tree_root(depth)
    /\ node_to_proto_idx = TreeSection_node_to_proto_idx(tree_root)
    /\ \E d0 \in InitDistParams :
          dist_params = [l \in Range(leaves(tree_root)) |-> [c \in Classes |-> d0]]
    /\ dist_param_update_count = [l \in Range(leaves(tree_root)) |-> 0]
    /\ leaf_opt_ewma_alpha \in EwmaAlphas
    /\ training = TRUE
    /\ call = NoCall
    /\ epoch = 0
    /\ freeze_epochs = 0
    /\ params_to_freeze = {}
    /\ requires_grad = [q \in Params |-> TRUE]

\* nn.Module.train() / nn.Module.eval()
Train ==
    /\ call = NoCall
    /\ training' = TRUE
    /\ UNCHANGED <<FreezeVars, depth, tree_root, node_to_proto_idx, leaf_opt_ewma_alpha,
                   dist_params, dist_param_update_count, call>>

Eval ==
    /\ call = NoCall
    /\ training' = FALSE
    /\ UNCHANGED <<FreezeVars, depth, tree_root, node_to_proto_idx, leaf_opt_ewma_alpha,
                   dist_params, dist_param_update_count, call>>

\* The part of a step of an inference operation that concerns the model.
InferenceFrame(op) ==
    /\ training' = state_after_inference(op).training
    /\ dist_params' = state_after_inference(op).dist_params
    /\ dist_param_update_count' = state_after_inference(op).dist_param_update_count
    /\ UNCHANGED <<FreezeVars, depth, tree_root, node_to_proto_idx, leaf_opt_ewma_alpha>>

Forward ==
    /\ call = NoCall
    /\ \E x \in Batches, strategy \in Strategies :
           \E r \in {forward(x, strategy)} :
               /\ call' = [NoCall EXCEPT !.op = "forward", !.strategy = strategy, !.x = x,
                                         !.training = training, !.raised = r.raised,
                                         !.logits = r.logits,
                                         !.node_to_probs = r.node_to_probs,
                                         !.predicting_leaves = r.predicting_leaves]
               /\ InferenceFrame("forward")

GetPredictingLeaves ==
    /\ call = NoCall
    /\ \E x \in Batches, strategy \in Strategies :
           \E node_to_probs \in {get_node_to_probs(proto_base_forward(x))} :
           \E r \in {get_predicting_leaves(tree_root, node_to_probs, strategy)} :
               /\ call' = [NoCall EXCEPT !.op = "get_predicting_leaves",
                                         !.strategy = strategy, !.x = x,
                                         !.training = training, !.raised = r.raised,
                                         !.node_to_probs = node_to_probs,
                                         !.predicting_leaves = r.value]
               /\ InferenceFrame("get_predicting_leaves")

PredictLogits ==
    /\ call = NoCall
    /\ \E x \in Batches, strategy \in Strategies :
           \E r \in {predict_logits(x, strategy)} :
               /\ call' = [NoCall EXCEPT !.op = "predict_logits", !.strategy = strategy,
                                         !.x = x, !.training = training,
                                         !.raised = r.raised, !.returned = r.value]
               /\ InferenceFrame("predict_logits")

Predict ==
    /\ call = NoCall
    /\ \E x \in Batches, strategy \in Strategies :
           \E r \in {predict(x, strategy)} :
               /\ call' = [NoCall EXCEPT !.op = "predict", !.strategy = strategy,
                                         !.x = x, !.training = training,
                                         !.raised = r.raised, !.returned = r.value]
               /\ InferenceFrame("predict")

PredictProbs ==
    /\ call = NoCall
    /\ \E x \in Batches, strategy \in Strategies :
           \E r \in {predict_probs(x, strategy)} :
               /\ call' = [NoCall EXCEPT !.op = "predict_probs", !.strategy = strategy,
                                         !.x = x, !.training = training,
                                         !.raised = r.raised, !.returned = r.value]
               /\ InferenceFrame("predict_probs")

Explain ==
    /\ call = NoCall
    /\ \E x \in Batches, strategy \in Strategies :
           \E r \in {explain(x, strategy)} :
               /\ call' = [NoCall EXCEPT !.op = "explain", !.strategy = strategy,
                                         !.x = x, !.training = training,
                                         !.raised = r.raised, !.logits = r.logits,
                                         !.node_to_probs = r.node_to_probs,
                                         !.predicting_leaves = r.predicting_leaves,
                                         !.returned = r.leaf_explanations]
               /\ InferenceFrame("explain")

\* explain of prototree/models.py
PrototreeExplain ==
    /\ call = NoCall
    /\ \E x \in Batches, strategy \in Strategies :
           \E r \in {prototree_explain(x, strategy)} :
               /\ call' = [NoCall EXCEPT !.op = "prototree_explain", !.strategy = strategy,
                                         !.x = x, !.training = training,
                                         !.raised = r.raised, !.logits = r.logits,
                                         !.node_to_probs = r.node_to_probs,
                                         !.predicting_leaves = r.predicting_leaves,
                                         !.returned = r.leaf_rationalizations]
               /\ InferenceFrame("explain")

\* The lists of leaves a caller hands to rationalize: any leaves of the tree or
\* of another tree, at most one per image.
LeafLists(x) ==
    LET candidates == leaves(tree_root) \o <<ForeignLeaf>>
    IN  {[i \in 1 .. n |-> candidates[((first + i - 2) % Len(candidates)) + 1]] :
            first \in 1 .. Len(candidates), n \in 0 .. Len(x)}

Rationalize ==
    /\ call = NoCall
    /\ \E x \in Batches :
           \E predicting_leaves \in LeafLists(x) :
               \E r \in {rationalize(x, predicting_leaves)} :
                   /\ call' = [NoCall EXCEPT !.op = "rationalize", !.x = x,
                                             !.training = training,
                                             !.predicting_leaves = predicting_leaves,
                                             !.raised = r.raised, !.returned = r.value]
                   /\ InferenceFrame("rationalize")

\* rationalize of prototree/models.py
PrototreeRationalize ==
    /\ call = NoCall
    /\ \E x \in Batches :
           \E predicting_leaves \in LeafLists(x) :
               \E r \in {prototree_rationalize(x, predicting_leaves)} :
                   /\ call' = [NoCall EXCEPT !.op = "prototree_rationalize", !.x = x,
                                             !.training = training,
                                             !.predicting_leaves = predicting_leaves,
                                             !.raised = r.raised, !.returned = r.value]
                   /\ InferenceFrame("rationalize")

LogState ==
    /\ call = NoCall
    /\ call' = [NoCall EXCEPT !.op = "log_state", !.training = training,
                              !.returned = log_leaves_properties]
    /\ InferenceFrame("log_state")

\* update_leaf_distributions(y_true, logits, node_to_prob) on the outcome of the
\* forward pass of a training batch.
UpdateLeafDistributions ==
    /\ call = NoCall
    /\ \A l \in DOMAIN dist_param_update_count :
          dist_param_update_count[l] < MaxUpdates
    /\ \E x \in TrainBatches :
           \E r \in {forward(x, "distributed")} :
           \E new \in {update_leaf_distributions([s \in 1 .. Len(x) |-> Label(x[s])],
                                                  r.logits, r.node_to_probs)} :
               /\ dist_params' =
                     [l \in DOMAIN dist_params |->
                         IF l \in DOMAIN new THEN new[l].dist_params ELSE dist_params[l]]
               /\ dist_param_update_count' =
                     [l \in DOMAIN dist_param_update_count |->
                         IF l \in DOMAIN new THEN new[l].dist_param_update_count
                         ELSE dist_param_update_count[l]]
               /\ call' = [NoCall EXCEPT !.op = "update_leaf_distributions",
                                         !.strategy = "distributed", !.x = x,
                                         !.training = training,
                                         !.logits = r.logits,
                                         !.node_to_probs = r.node_to_probs,
                                         !.old_dist_params = dist_params,
                                         !.dist_update =
                                             [l \in DOMAIN new |-> new[l].dist_update],
                                         !.old_update_count = dist_param_update_count]
               /\ UNCHANGED <<FreezeVars, depth, tree_root, node_to_proto_idx, leaf_opt_ewma_alpha, training>>

TrainingStep ==
    /\ call = NoCall
    /\ \A l \in DOMAIN dist_param_update_count :
          dist_param_update_count[l] < MaxUpdates
    /\ \E x \in TrainBatches, loss \in Losses :
           \E y \in {[s \in 1 .. Len(x) |-> Label(x[s])]} :
           \E r \in {training_step(x, y, loss)} :
               /\ dist_params' =
                     [l \in DOMAIN dist_params |->
                         IF l \in DOMAIN r.new THEN r.new[l].dist_params ELSE dist_params[l]]
               /\ dist_param_update_count' =
                     [l \in DOMAIN dist_param_update_count |->
                         IF l \in DOMAIN r.new THEN r.new[l].dist_param_update_count
                         ELSE dist_param_update_count[l]]
               /\ call' = [NoCall EXCEPT !.op = "training_step",
                                         !.strategy = "distributed", !.x = x, !.y_true = y,
                                         !.training = training, !.loss = loss,
                                         !.raised = r.raised, !.events = r.events,
                                         !.logits = r.logits,
                                         !.node_to_probs = r.node_to_probs,
                                         !.old_dist_params = dist_params,
                                         !.dist_update =
                                             [l \in DOMAIN r.new |-> r.new[l].dist_update],
                                         !.old_update_count = dist_param_update_count]
               /\ UNCHANGED <<FreezeVars, depth, tree_root, node_to_proto_idx, leaf_opt_ewma_alpha, training>>

ValidationStep ==
    /\ call = NoCall
    /\ \E x \in TrainBatches :
           \E y \in {[s \in 1 .. Len(x) |-> Label(x[s])]} :
           \E r \in {validation_step(x, y)} :
               /\ call' = [NoCall EXCEPT !.op = "validation_step",
                                         !.strategy = "distributed", !.x = x, !.y_true = y,
                                         !.training = training, !.raised = r.raised,
                                         !.events = r.events, !.returned = r.acc]
               /\ InferenceFrame("validation_step")

\* The part of a step of an evaluation function that concerns the model.
EvaluationFrame(r) ==
    /\ training' = r.training
    /\ UNCHANGED <<FreezeVars, depth, tree_root, node_to_proto_idx, leaf_opt_ewma_alpha,
                   dist_params, dist_param_update_count>>

EvalModel ==
    /\ call = NoCall
    /\ \E loader \in Loaders, strategy \in Strategies, explain_flag \in BOOLEAN :
           \E r \in {eval_model(loader, strategy, explain_flag)} :
               /\ call' = [NoCall EXCEPT !.op = "eval_model", !.strategy = strategy,
                                         !.loader = loader, !.explain = explain_flag,
                                         !.training = training, !.raised = r.raised,
                                         !.events = r.events, !.returned = r.value,
                                         !.old_dist_params = dist_params,
                                         !.old_update_count = dist_param_update_count]
               /\ EvaluationFrame(r)

EvalPrototreeModel ==
    /\ call = NoCall
    /\ \E loader \in Loaders, strategy \in Strategies, explain_flag \in BOOLEAN :
           \E r \in {eval_prototree_model(loader, strategy, explain_flag)} :
               /\ call' = [NoCall EXCEPT !.op = "eval_prototree_model",
                                         !.strategy = strategy,
                                         !.loader = loader, !.explain = explain_flag,
                                         !.training = training, !.raised = r.raised,
                                         !.events = r.events, !.returned = r.value,
                                         !.old_dist_params = dist_params,
                                         !.old_update_count = dist_param_update_count]
               /\ EvaluationFrame(r)

\* eval_fidelity with the default reference strategy.
EvalFidelity ==
    /\ call = NoCall
    /\ \E loader \in Loaders, test_strategy \in Strategies :
           \E r \in {eval_fidelity(loader, test_strategy, "distributed")} :
               /\ call' = [NoCall EXCEPT !.op = "eval_fidelity",
                                         !.strategy = test_strategy, !.loader = loader,
                                         !.training = training, !.raised = r.raised,
                                         !.events = r.events, !.returned = r.value,
                                         !.old_dist_params = dist_params,
                                         !.old_update_count = dist_param_update_count]
               /\ EvaluationFrame(r)

\* ProtoTree(depth=..., leaf_opt_ewma_alpha=...): the construction of another
\* model; the model at hand is not touched.
Construct ==
    /\ call = NoCall
    /\ \E tree_depth \in ConstructDepths, ewma_alpha_arg \in EwmaAlphas :
           \E r \in {ProtoTree_init(tree_depth, ewma_alpha_arg)} :
               call' = [NoCall EXCEPT !.op = "ProtoTree", !.training = training,
                                      !.depth_arg = tree_depth,
                                      !.raised = r.raised, !.returned = r.value]
    /\ UNCHANGED <<FreezeVars, depth, tree_root, node_to_proto_idx, leaf_opt_ewma_alpha, training,
                   dist_params, dist_param_update_count>>

\* The caller drops what the last call returned: the outputs of a call are owned
\* by the call and never persisted.
Discard ==
    /\ call # NoCall
    /\ call' = NoCall
    /\ UNCHANGED <<FreezeVars, depth, tree_root, node_to_proto_idx, leaf_opt_ewma_alpha, training,
                   dist_params, dist_param_update_count>>

Next ==
    \/ Train
    \/ Eval
    \/ Forward
    \/ GetPredictingLeaves
    \/ PredictLogits
    \/ Predict
    \/ PredictProbs
    \/ Explain
    \/ PrototreeExplain
    \/ Rationalize
    \/ PrototreeRationalize
    \/ LogState
    \/ UpdateLeafDistributions
    \/ TrainingStep
    \/ ValidationStep
    \/ EvalModel
    \/ EvalPrototreeModel
    \/ EvalFidelity
    \/ Construct
    \/ Discard

Spec == Init /\ [][Next]_vars

(***************************************************************************)
(* The training run's calls of freeze: once per epoch, for the epochs 1,   *)
(* 2, 3, ... in order, on a model that is otherwise left alone.            *)
(***************************************************************************)
InitFreeze ==
    /\ depth = 1
    /\ tree_root = TreeSection_tree_root(depth)
    /\ node_to_proto_idx = TreeSection_node_to_proto_idx(tree_root)
    /\ dist_params = [l \in Range(leaves(tree_root)) |-> [c \in Classes |-> RZero]]
    /\ dist_param_update_count = [l \in Range(leaves(tree_root)) |-> 0]
    /\ leaf_opt_ewma_alpha = ROne
    /\ training = TRUE
    /\ call = NoCall
    /\ epoch = 0
    /\ freeze_epochs \in -1 .. MaxFreezeEpochs
    /\ params_to_freeze \in SUBSET Params
    /\ requires_grad \in [Params -> BOOLEAN]

Freeze ==
    /\ epoch < MaxEpochs
    /\ epoch' = epoch + 1
    /\ requires_grad' = freeze(epoch + 1, params_to_freeze, freeze_epochs, requires_grad)
    /\ UNCHANGED <<depth, tree_root, node_to_proto_idx, leaf_opt_ewma_alpha, training,
                   dist_params, dist_param_update_count, call, freeze_epochs,
                   params_to_freeze>>

NextFreeze == Freeze

SpecFreeze == InitFreeze /\ [][NextFreeze]_vars

(***************************************************************************)
(* Properties.                                                             *)
(***************************************************************************)
HardStrategies == {"sample_max", "greedy"}
TreeLeaves == Range(leaves(tree_root))
TreeInternal == Range(descendant_internal_nodes(tree_root))

\* C1: forward raises ValueError exactly when the strategy is none of the three
\* names, or the model is in training mode and the strategy is sample_max or
\* greedy; in every other case it returns logits and node probabilities.
\* get_predicting_leaves raises exactly when the name is no single-leaf strategy.
C1_StrategySelection ==
    /\ call.op = "forward" =>
          LET illegal ==
                  \/ call.strategy \notin {"distributed", "sample_max", "greedy"}
                  \/ call.training /\ call.strategy \in HardStrategies
          IN  /\ (call.raised = "ValueError") <=> illegal
              /\ illegal => call.logits = None /\ call.predicting_leaves = None
              /\ ~illegal => /\ call.raised = NoError
                             /\ call.logits # None
                             /\ call.node_to_probs # None
                             /\ (call.predicting_leaves = None)
                                   <=> (call.strategy = "distributed")
    /\ call.op = "get_predicting_leaves" =>
          /\ (call.raised = "ValueError") <=> (call.strategy \notin HardStrategies)
          /\ (call.strategy \in HardStrategies) => call.predicting_leaves # None

\* An unknown name was rejected in eval mode.
C1_Witness ==
    /\ call.op = "forward"
    /\ call.strategy = "random"
    /\ ~call.training
    /\ call.raised = "ValueError"

\* C2: the tree held as tree_root has 2^depth leaves and 2^depth - 1 internal
\* nodes, every internal node has two distinct children, every node but the root
\* is the child of exactly one internal node, and the ancestor chain of every
\* leaf has length depth, starts at the root and descends child by child.
C2_PerfectTree ==
    LET ls == leaves(tree_root)
        internal == descendant_internal_nodes(tree_root)
        children(n) == {tree_root.left[n], tree_root.right[n]}
    IN  /\ Len(ls) = Pow2(depth)
        /\ Cardinality(Range(ls)) = Pow2(depth)
        /\ Len(internal) = Pow2(depth) - 1
        /\ Cardinality(Range(internal)) = Pow2(depth) - 1
        /\ Range(ls) \cap Range(internal) = {}
        /\ DOMAIN tree_root.left = Range(internal)
        /\ DOMAIN tree_root.right = Range(internal)
        /\ \A n \in Range(internal) :
              /\ tree_root.left[n] # tree_root.right[n]
              /\ children(n) \subseteq Range(ls) \cup Range(internal)
        /\ \A n \in (Range(ls) \cup Range(internal)) \ {tree_root.root} :
              Cardinality({m \in Range(internal) : n \in children(m)}) = 1
        /\ \A l \in Range(ls) :
              LET chain == ancestors(l)
              IN  /\ Len(chain) = depth
                  /\ chain[1] = tree_root.root
                  /\ \A i \in 1 .. Len(chain) : chain[i] \in Range(internal)
                  /\ \A i \in 1 .. (Len(chain) - 1) : chain[i + 1] \in children(chain[i])
                  /\ l \in children(chain[Len(chain)])

\* A tree of the largest depth has been built.
C2_Witness == depth = MaxDepth /\ Len(leaves(tree_root)) > 2

\* C3: in every node-probability map the propagation returns, the arrival
\* probabilities of the leaves sum to 1 for every sample.
C3_MassConserved ==
    call.node_to_probs # None =>
        \A s \in 1 .. Len(call.x) :
            RSumSeq([k \in 1 .. Len(leaves(tree_root)) |->
                        Exp(call.node_to_probs[leaves(tree_root)[k]].log_p_arrival[s])])
              = ROne

\* A propagation spread a sample's mass over leaves, one of them getting none.
C3_Witness ==
    /\ call.node_to_probs # None
    /\ \E l1, l2, l3 \in TreeLeaves :
          /\ call.node_to_probs[l1].log_p_arrival[1] = RZero
          /\ l2 # l3
          /\ RLt(RZero, call.node_to_probs[l2].log_p_arrival[1])
          /\ RLt(RZero, call.node_to_probs[l3].log_p_arrival[1])

\* The leaves a single-leaf strategy selects for the one-sample batch <<img>>.
LeafForImage(img, strategy) ==
    get_predicting_leaves(tree_root, get_node_to_probs(proto_base_forward(<<img>>)),
                          strategy).value[1]

\* C4: for sample_max and greedy, the list of predicting leaves has one entry per
\* sample of the batch, every entry is a leaf of the tree, and the i-th entry is
\* the leaf the strategy selects for the i-th sample on its own.
C4_OneLeafPerSample ==
    (call.strategy \in HardStrategies /\ call.predicting_leaves # None) =>
        /\ Len(call.predicting_leaves) = Len(call.x)
        /\ \A i \in 1 .. Len(call.x) :
              /\ call.predicting_leaves[i] \in TreeLeaves
              /\ call.predicting_leaves[i] = LeafForImage(call.x[i], call.strategy)

\* Each strategy returned different leaves for the two samples of a batch.
C4_Witness ==
    /\ call.strategy = "greedy"
    /\ call.predicting_leaves # None
    /\ Len(call.x) = MaxBatch
    /\ call.predicting_leaves[1] # call.predicting_leaves[2]

\* C5: under sample_max the leaf selected for a sample has the largest
\* log_p_arrival of all leaves for that sample, and every leaf that comes before
\* it in root.leaves has a strictly smaller one.
C5_SampleMaxFirstMaximum ==
    (call.strategy = "sample_max" /\ call.predicting_leaves # None) =>
        \A i \in 1 .. Len(call.x) :
            LET ls == leaves(tree_root)
                chosen == IndexOf(ls, call.predicting_leaves[i])
                arrival(k) == call.node_to_probs[ls[k]].log_p_arrival[i]
            IN  /\ \A k \in 1 .. Len(ls) : RLe(arrival(k), arrival(chosen))
                /\ \A k \in 1 .. (chosen - 1) : RLt(arrival(k), arrival(chosen))

\* sample_max chose among several leaves that share the maximum.
C5_Witness ==
    /\ call.strategy = "sample_max"
    /\ call.predicting_leaves # None
    /\ \E l \in TreeLeaves :
          /\ l # call.predicting_leaves[1]
          /\ call.node_to_probs[l].log_p_arrival[1]
                = call.node_to_probs[call.predicting_leaves[1]].log_p_arrival[1]

\* The child the greedy walk of sample i took at the k-th node of the path to leaf.
PathNode(leaf, k) == SubSeq(leaf, 1, k - 1)
PathChild(leaf, k) == SubSeq(leaf, 1, k)
GreedyCall == call.strategy = "greedy" /\ call.predicting_leaves # None

\* C6 as stated: at each internal node the greedy walk moves to the right child
\* if log_p_right > -log 2 and to the left child otherwise, so to the left when
\* p_right is exactly 0.5.
C6_RightIffAboveHalf ==
    GreedyCall =>
        \A i \in 1 .. Len(call.x) :
            LET leaf == call.predicting_leaves[i]
            IN  \A k \in 1 .. Len(leaf) :
                    LET node == PathNode(leaf, k)
                        log_p_right == call.node_to_probs[node].log_p_right[i]
                    IN  PathChild(leaf, k) =
                            IF RLt(NegLog2, log_p_right)
                            THEN tree_root.right[node]
                            ELSE tree_root.left[node]

\* C6 (amended): at each internal node the greedy walk moves to the left child if
\* log_p_left > -log 2, that is p_right < 0.5, and to the right child otherwise,
\* so to the right when p_right is exactly 0.5; the choice reads the node's
\* routing probability only.
C6_LeftIffBelowHalf ==
    GreedyCall =>
        \A i \in 1 .. Len(call.x) :
            LET leaf == call.predicting_leaves[i]
            IN  /\ leaf \in TreeLeaves
                /\ \A k \in 1 .. Len(leaf) :
                      LET node == PathNode(leaf, k)
                          log_p_right == call.node_to_probs[node].log_p_right[i]
                      IN  PathChild(leaf, k) =
                              IF RLt(log_p_right, NegLog2)
                              THEN tree_root.left[node]
                              ELSE tree_root.right[node]

\* A greedy walk met a node with p_right exactly 0.5 and another one below 0.5.
C6_Witness ==
    /\ GreedyCall
    /\ \E i, j \in 1 .. Len(call.x) :
          /\ call.node_to_probs[tree_root.root].log_p_right[i] = NegLog2
          /\ RLt(call.node_to_probs[tree_root.root].log_p_right[j], NegLog2)

\* C7: with strategy "distributed", in training and in eval mode, forward raises
\* nothing, returns no predicting leaves, and its logits are, per sample and
\* class, the sum over all leaves of the arrival probability at the leaf times
\* the leaf's class vector, the arrival being that of the propagation of the batch.
C7_DistributedLogits ==
    (call.op = "forward" /\ call.strategy = "distributed") =>
        /\ call.raised = NoError
        /\ call.predicting_leaves = None
        /\ call.node_to_probs = get_node_to_probs(proto_base_forward(call.x))
        /\ \A s \in 1 .. Len(call.x) : \A c \in Classes :
              Exp(call.logits[s][c]) =
                  RSumSeq([k \in 1 .. Len(leaves(tree_root)) |->
                      RMul(Exp(call.node_to_probs[leaves(tree_root)[k]].log_p_arrival[s]),
                           Exp(y_logits(dist_params[leaves(tree_root)[k]])[c]))])

\* A distributed forward in eval mode over leaves with different class vectors,
\* for a sample that reaches several leaves.
C7_Witness ==
    /\ call.op = "forward"
    /\ call.strategy = "distributed"
    /\ ~call.training
    /\ \E l1, l2 \in TreeLeaves :
          /\ y_logits(dist_params[l1]) # y_logits(dist_params[l2])
          /\ RLt(RZero, call.node_to_probs[l1].log_p_arrival[1])
          /\ RLt(RZero, call.node_to_probs[l2].log_p_arrival[1])

UpdateCall == call.op = "update_leaf_distributions"

\* C8 as stated: an update replaces dist_params element-wise by
\* dist_params*(1 - alpha) + update_vector*alpha, with
\* alpha = max(1/update_count, leaf_opt_ewma_alpha) of the incremented counter.
C8_WeightedAverage ==
    UpdateCall =>
        \A l \in TreeLeaves : \A c \in Classes :
            LET alpha == RMax(Rat(1, dist_param_update_count[l]), leaf_opt_ewma_alpha)
            IN  dist_params[l][c] =
                    RAdd(RMul(call.old_dist_params[l][c], RSub(ROne, alpha)),
                         RMul(call.dist_update[l][c], alpha))

\* C9: on the first update of a leaf the new dist_params is the update vector of
\* the batch, whatever leaf_opt_ewma_alpha <= 1 is configured; the step gives the
\* same result for any previous dist_params.
C9_FirstUpdateIsRaw ==
    UpdateCall =>
        \A l \in TreeLeaves :
            dist_param_update_count[l] = 1 =>
                /\ dist_params[l] = call.dist_update[l]
                /\ \A d0 \in InitDistParams :
                      ewma_step([c \in Classes |-> d0], call.dist_update[l],
                                ewma_alpha(dist_param_update_count[l])) = dist_params[l]

\* A first update, with a weight below 1 configured, of a leaf that held
\* non-zero parameters and receives a non-zero update vector.
C9_Witness ==
    /\ UpdateCall
    /\ RLt(leaf_opt_ewma_alpha, ROne)
    /\ \E l \in TreeLeaves : \E c \in Classes :
          /\ dist_param_update_count[l] = 1
          /\ call.old_dist_params[l][c] # RZero
          /\ call.dist_update[l][c] # RZero

\* A leaf no sample of the batch of the last call reaches.
Unreached(l) == \A s \in 1 .. Len(call.x) : call.node_to_probs[l].log_p_arrival[s] = RZero

\* C10: all leaves always have the same counter value, and a call of
\* update_leaf_distributions increments the counter of every leaf by exactly one
\* and applies the update step to every leaf, also to the leaves no sample reaches.
C10_EveryLeafUpdated ==
    /\ \A l1, l2 \in TreeLeaves : dist_param_update_count[l1] = dist_param_update_count[l2]
    /\ UpdateCall =>
          \A l \in TreeLeaves :
              /\ dist_param_update_count[l] = call.old_update_count[l] + 1
              /\ dist_params[l] =
                     ewma_step(call.old_dist_params[l], call.dist_update[l],
                               ewma_alpha(dist_param_update_count[l]))

\* The second update in a row changed a leaf that no sample of the batch reaches.
C10_Witness ==
    /\ UpdateCall
    /\ \E l \in TreeLeaves :
          /\ Unreached(l)
          /\ dist_param_update_count[l] = 2
          /\ dist_params[l] # call.old_dist_params[l]

InferenceOps ==
    {"forward", "predict", "predict_logits", "predict_probs", "explain", "rationalize",
     "prototree_rationalize", "prototree_explain", "log_state"}
LearnerOps == {"update_leaf_distributions", "training_step"}

\* C11: no step changes the tree or the node-to-prototype-index map; a step of
\* forward, predict, predict_logits, predict_probs, explain, rationalize or
\* log_state leaves every leaf's dist_params and dist_param_update_count as they
\* were, and a step that changes one of them is a step of the leaf learner.
C11_InferenceIsReadOnly ==
    [][/\ tree_root' = tree_root
       /\ node_to_proto_idx' = node_to_proto_idx
       /\ call'.op \in InferenceOps =>
             /\ dist_params' = dist_params
             /\ dist_param_update_count' = dist_param_update_count
       /\ (dist_params' # dist_params \/ dist_param_update_count' # dist_param_update_count)
             => call'.op \in LearnerOps]_vars

\* Inference calls of every kind were made on a model whose leaves were updated.
C11_Witness ==
    /\ call.op = "log_state"
    /\ \E l \in TreeLeaves : dist_param_update_count[l] = MaxUpdates

\* What forward returns in the current state for the input of the last call.
ForwardAgain == forward(call.x, call.strategy)

EvidenceNodes(rationalization) ==
    [k \in 1 .. Len(rationalization.ancestor_similarities) |->
        rationalization.ancestor_similarities[k].internal_node]

\* The path from the root to the parent of leaf, each node the child of the one before.
IsRootToLeafPath(nodes, leaf) ==
    /\ Len(nodes) = depth
    /\ nodes[1] = tree_root.root
    /\ \A k \in 1 .. (Len(nodes) - 1) :
          nodes[k + 1] \in {tree_root.left[nodes[k]], tree_root.right[nodes[k]]}
    /\ leaf \in {tree_root.left[nodes[Len(nodes)]], tree_root.right[nodes[Len(nodes)]]}

\* C13: every rationalization rationalize returns for an (image, leaf) pair holds
\* exactly depth evidence entries, one per internal node on the path from the
\* root to the leaf, the root first and the parent of the leaf last.
C13_EvidenceRootToLeaf ==
    /\ (call.op = "rationalize" /\ call.raised = NoError) =>
          \A i \in 1 .. Len(call.returned) :
              IsRootToLeafPath(EvidenceNodes(call.returned[i]), call.predicting_leaves[i])
    /\ (call.op = "prototree_rationalize" /\ call.raised = NoError) =>
          \A j \in 1 .. Len(call.returned) :
              IsRootToLeafPath(EvidenceNodes(call.returned[j]),
                               call.predicting_leaves[((j - 1) \div depth) + 1])

\* A rationalization for a leaf of a tree of the largest depth that is not the
\* leaf the model predicts for the image.
C13_Witness ==
    /\ call.op = "rationalize"
    /\ call.raised = NoError
    /\ depth = MaxDepth
    /\ Len(call.returned) = MaxBatch
    /\ call.predicting_leaves[1] # LeafForImage(call.x[1], "sample_max")
    /\ call.predicting_leaves[1] # LeafForImage(call.x[1], "greedy")

\* C14: proto_presents of a rationalization has the length of
\* ancestor_similarities, and its i-th flag is true exactly when the path to the
\* leaf goes on to the right child of the i-th ancestor: it is is_right_child of
\* the (i+1)-th ancestor, and of the leaf for the last entry.
C14_ProtoPresents ==
    (call.op = "rationalize" /\ call.raised = NoError) =>
        \A i \in 1 .. Len(call.returned) :
            LET rationalization == call.returned[i]
                nodes == EvidenceNodes(rationalization)
                flags == proto_presents(rationalization)
                next(k) == IF k < Len(nodes) THEN nodes[k + 1] ELSE rationalization.leaf
            IN  /\ Len(flags) = Len(rationalization.ancestor_similarities)
                /\ \A k \in 1 .. Len(flags) :
                      /\ flags[k] = is_right_child(next(k))
                      /\ flags[k] <=> (next(k) = tree_root.right[nodes[k]])

\* A rationalization whose path goes right at one ancestor and left at another.
C14_Witness ==
    /\ call.op = "rationalize"
    /\ call.raised = NoError
    /\ \E i \in 1 .. Len(call.returned) :
          LET flags == proto_presents(call.returned[i])
          IN  \E k1, k2 \in 1 .. Len(flags) : flags[k1] /\ ~flags[k2]

RationalizeOps == {"rationalize", "prototree_rationalize"}

\* C15 as stated: rationalize raises an error, and returns no list, whenever
\* predicting_leaves is shorter than the batch or holds a leaf that is no leaf of
\* the tree of the model.
C15_RationalizeFailsLoudly ==
    (/\ call.op \in RationalizeOps
     /\ \/ Len(call.predicting_leaves) < Len(call.x)
        \/ \E i \in 1 .. Len(call.predicting_leaves) :
               call.predicting_leaves[i] \notin TreeLeaves)
        => call.raised # NoError

\* rationalize returned, without an error, fewer rationalizations than images.
C15_Witness ==
    /\ call.op = "rationalize"
    /\ call.raised = NoError
    /\ Len(call.predicting_leaves) = 1
    /\ Len(call.x) = MaxBatch
    /\ Len(call.returned) = 1

\* C16 as stated: for a batch of B images and a list of B leaves of the tree,
\* rationalize returns exactly B rationalizations, the i-th built for the i-th
\* image and carrying the i-th leaf or its label.
C16_OneRationalizationPerPair ==
    (/\ call.op \in RationalizeOps
     /\ Len(call.predicting_leaves) = Len(call.x)
     /\ \A i \in 1 .. Len(call.predicting_leaves) : call.predicting_leaves[i] \in TreeLeaves)
        => /\ call.raised = NoError
           /\ Len(call.returned) = Len(call.x)
           /\ \A i \in 1 .. Len(call.x) :
                 /\ \A k \in 1 .. Len(call.returned[i].ancestor_similarities) :
                       call.returned[i].ancestor_similarities[k].image = call.x[i]
                 /\ IF call.op = "rationalize"
                    THEN call.returned[i].leaf = call.predicting_leaves[i]
                    ELSE call.returned[i].label = predicted_label(call.predicting_leaves[i])

\* rationalize of prototree/models.py returned one rationalization per ancestor
\* of every leaf.
C16_Witness ==
    /\ call.op = "prototree_rationalize"
    /\ call.raised = NoError
    /\ depth = MaxDepth
    /\ Len(call.predicting_leaves) = Len(call.x)
    /\ Len(call.returned) = depth * Len(call.x)

\* The update vector of leaf l for the labels, logits and node probabilities of
\* the last call, computed from the leaf's parameters before the call.
UpdateVectorOfCall(l) ==
    [c \in Classes |->
        Exp(LogSumExp([s \in 1 .. Len(call.x) |->
            Float(LogSub(LogAdd(LogAdd(call.node_to_probs[l].log_p_arrival[s],
                                       y_logits(call.old_dist_params[l])[c]),
                                y_true_logits_of(call.y_true)[s][c]),
                         call.logits[s][c]))]))]

\* C17: a training_step that completes makes its calls in the order forward,
\* optimizer step, update_leaf_distributions, the last exactly once and with the
\* labels, logits and node probabilities of the batch of the step; a step that
\* raises does not reach it, and no other operation calls it.
C17_UpdateOncePerTrainingStep ==
    /\ (call.op = "training_step" /\ call.raised = NoError) =>
          /\ call.events = <<"forward", "optimizer_step", "update_leaf_distributions">>
          /\ call.y_true = [s \in 1 .. Len(call.x) |-> Label(call.x[s])]
          /\ call.node_to_probs = get_node_to_probs(proto_base_forward(call.x))
          /\ \A s \in 1 .. Len(call.x) : \A c \in Classes :
                Exp(call.logits[s][c]) =
                    RSumSeq([k \in 1 .. Len(leaves(tree_root)) |->
                        RMul(Exp(call.node_to_probs[leaves(tree_root)[k]].log_p_arrival[s]),
                             Exp(y_logits(call.old_dist_params[leaves(tree_root)[k]])[c]))])
          /\ \A l \in TreeLeaves :
                /\ dist_param_update_count[l] = call.old_update_count[l] + 1
                /\ call.dist_update[l] = UpdateVectorOfCall(l)
                /\ dist_params[l] = ewma_step(call.old_dist_params[l], call.dist_update[l],
                                              ewma_alpha(dist_param_update_count[l]))
    /\ (call.op = "training_step" /\ call.raised # NoError) =>
          /\ "update_leaf_distributions" \notin Range(call.events)
          /\ dist_param_update_count = call.old_update_count
    /\ call.op \notin LearnerOps => "update_leaf_distributions" \notin Range(call.events)

\* The second training_step of a run completed.
C17_Witness ==
    /\ call.op = "training_step"
    /\ call.raised = NoError
    /\ \A l \in TreeLeaves : dist_param_update_count[l] = 2
    /\ \E l \in TreeLeaves : dist_params[l] # call.old_dist_params[l]

\* C18 as stated: when the loss of the batch is not finite, training_step raises
\* before the optimizer step and before update_leaf_distributions, and every
\* leaf's dist_params and dist_param_update_count are as before the step.
C18_NonFiniteLossRaises ==
    (call.op = "training_step" /\ call.loss # "finite") =>
        /\ call.raised = "ValueError"
        /\ call.events = <<"forward">>
        /\ dist_params = call.old_dist_params
        /\ dist_param_update_count = call.old_update_count

\* A training_step with an infinite loss went on to update the leaves.
C18_Witness ==
    /\ call.op = "training_step"
    /\ call.loss = "inf"
    /\ call.raised = NoError
    /\ \A l \in TreeLeaves : dist_param_update_count[l] = call.old_update_count[l] + 1

\* C19: node_to_proto_idx maps the internal nodes of the tree one-to-one onto
\* 0 .. 2^depth - 2, no leaf has an index, there are as many prototypes as
\* internal nodes, a new construction with the same depth gives every position
\* the same index, and the routing probability of a node is read from the
\* channel with the node's index.
C19_ProtoIdxBijection ==
    /\ DOMAIN node_to_proto_idx = TreeInternal
    /\ {node_to_proto_idx[n] : n \in TreeInternal} = 0 .. (Pow2(depth) - 2)
    /\ \A n1, n2 \in TreeInternal :
          node_to_proto_idx[n1] = node_to_proto_idx[n2] => n1 = n2
    /\ DOMAIN node_to_proto_idx \cap TreeLeaves = {}
    /\ num_prototypes(depth) = Cardinality(TreeInternal)
    /\ node_to_proto_idx = TreeSection_node_to_proto_idx(TreeSection_tree_root(depth))
    /\ call.op = "forward" /\ call.raised = NoError =>
          \A n \in TreeInternal : \A s \in 1 .. Len(call.x) :
              call.node_to_probs[n].log_p_right[s] =
                  LogNeg(proto_base_forward(call.x)[s][node_to_proto_idx[n] + 1])

\* A forward pass over a tree with several internal nodes.
C19_Witness ==
    /\ call.op = "forward"
    /\ call.raised = NoError
    /\ depth = MaxDepth
    /\ Cardinality(DOMAIN node_to_proto_idx) > 1

\* C20: with sample_max and greedy, row i of the logits forward returns is the
\* class-logit vector of predicting_leaves[i], for every sample i.
C20_HardLogitsAreLeafLogits ==
    (call.op = "forward" /\ call.strategy \in HardStrategies /\ call.raised = NoError) =>
        /\ Len(call.logits) = Len(call.x)
        /\ \A i \in 1 .. Len(call.x) :
              call.logits[i] = y_logits(dist_params[call.predicting_leaves[i]])

\* A hard forward pass whose selected leaf has a class vector that other
\* reachable leaves of the sample do not share.
C20_Witness ==
    /\ call.op = "forward"
    /\ call.strategy \in HardStrategies
    /\ call.raised = NoError
    /\ \E l \in TreeLeaves :
          /\ RLt(RZero, call.node_to_probs[l].log_p_arrival[1])
          /\ y_logits(dist_params[l]) # call.logits[1]

\* The calls that run the leaf learner.
LearnerCall == call.op \in LearnerOps /\ call.raised = NoError

\* C21: the weight max(1/update_count, leaf_opt_ewma_alpha) never increases with
\* the update count, and for a configured value a in (0, 1] it is a for every
\* count of at least 1/a; an update with such a count is made with weight a.
C21_AlphaConverges ==
    (RLt(RZero, leaf_opt_ewma_alpha) /\ RLe(leaf_opt_ewma_alpha, ROne)) =>
        /\ \A n \in 1 .. MaxUpdates : RLe(ewma_alpha(n + 1), ewma_alpha(n))
        /\ \A n \in 1 .. (MaxUpdates + 1) :
              /\ RLe(leaf_opt_ewma_alpha, ewma_alpha(n))
              /\ RLe(ROne, RMul(Rat(n, 1), leaf_opt_ewma_alpha)) =>
                    ewma_alpha(n) = leaf_opt_ewma_alpha
        /\ LearnerCall =>
              \A l \in TreeLeaves :
                  RLe(ROne, RMul(Rat(dist_param_update_count[l], 1), leaf_opt_ewma_alpha)) =>
                      dist_params[l] = ewma_step(call.old_dist_params[l], call.dist_update[l],
                                                 leaf_opt_ewma_alpha)

\* An update with a count above 1 made with a configured weight below 1 that the
\* count has reached, on parameters the weight scales.
C21_Witness ==
    /\ LearnerCall
    /\ RLt(leaf_opt_ewma_alpha, ROne)
    /\ \E l \in TreeLeaves :
          /\ dist_param_update_count[l] > 1
          /\ Rat(1, dist_param_update_count[l]) = leaf_opt_ewma_alpha
          /\ \E c \in Classes : call.old_dist_params[l][c] # RZero

\* C22: a constructor call with a depth below 1 ends in an error and returns
\* no model; every model a constructor call returns has the perfect tree of
\* its depth, which is at least 1.
C22_DepthBelowOneFails ==
    call.op = "ProtoTree" =>
        /\ call.depth_arg < 1 => (call.raised # NoError /\ call.returned = None)
        /\ call.raised = NoError =>
              /\ call.returned.depth >= 1
              /\ Len(leaves(call.returned.tree_root)) = Pow2(call.returned.depth)
              /\ Len(descendant_internal_nodes(call.returned.tree_root)) =
                     Pow2(call.returned.depth) - 1
              /\ call.returned.num_prototypes = Pow2(call.returned.depth) - 1
              /\ DOMAIN call.returned.node_to_proto_idx =
                     Range(descendant_internal_nodes(call.returned.tree_root))

\* A constructor call with depth 0 that failed.
C22_Witness ==
    /\ call.op = "ProtoTree"
    /\ call.depth_arg = 0
    /\ call.raised = "DomainError"
    /\ call.returned = None

\* C23: the map the propagation returns has exactly the nodes of the tree as
\* keys; the root's log_p_arrival is 0 for every sample; for every internal node
\* n, log_p_arrival(n.right) = log_p_arrival(n) + log_p_right(n) and
\* log_p_arrival(n.left) = log_p_arrival(n) + log(1 - exp(log_p_right(n)));
\* an internal node's entry carries its own log_p_right, a leaf's entry none.
C23_ArrivalRecurrence ==
    call.node_to_probs # None =>
        /\ DOMAIN call.node_to_probs = TreeInternal \cup TreeLeaves
        /\ \A s \in 1 .. Len(call.x) :
              /\ call.node_to_probs[tree_root.root].log_p_arrival[s] = LogZero
              /\ \A n \in TreeInternal :
                    /\ call.node_to_probs[tree_root.right[n]].log_p_arrival[s] =
                           LogAdd(call.node_to_probs[n].log_p_arrival[s],
                                  call.node_to_probs[n].log_p_right[s])
                    /\ call.node_to_probs[tree_root.left[n]].log_p_arrival[s] =
                           LogAdd(call.node_to_probs[n].log_p_arrival[s],
                                  Log1mExp(call.node_to_probs[n].log_p_right[s]))
        /\ \A n \in TreeInternal :
              call.node_to_probs[n].log_p_right =
                  get_node_to_log_p_right(proto_base_forward(call.x))[n]
        /\ \A l \in TreeLeaves : call.node_to_probs[l].log_p_right = None

\* A propagation over a tree of the largest depth in which a sample reaches both
\* children of a node below the root, each with less than the node's own
\* arrival probability.
C23_Witness ==
    /\ call.node_to_probs # None
    /\ depth = MaxDepth
    /\ \E n \in TreeInternal :
          /\ n # tree_root.root
          /\ RLt(RZero, call.node_to_probs[tree_root.left[n]].log_p_arrival[1])
          /\ RLt(call.node_to_probs[tree_root.left[n]].log_p_arrival[1],
                 call.node_to_probs[n].log_p_arrival[1])
          /\ RLt(RZero, call.node_to_probs[tree_root.right[n]].log_p_arrival[1])
          /\ RLt(call.node_to_probs[n].log_p_arrival[1], ROne)

\* The similarities of one more sample to the prototypes: p_right is 3/5 at the
\* root, 1 at every node of the left subtree and 1/2 at every node of the right
\* subtree.
SkewedSimilarities ==
    <<[i \in 1 .. Cardinality(DOMAIN node_to_proto_idx) |->
          Bind(CHOOSE n \in DOMAIN node_to_proto_idx : node_to_proto_idx[n] = i - 1,
               LAMBDA node :
                  IF node = <<>> THEN <<5, 3>>
                  ELSE IF node[1] = 0 THEN <<1, 1>> ELSE <<2, 1>>)]>>

\* What the two single-leaf strategies select for a one-sample batch with the
\* given similarities, with the arrival probabilities of the two leaves.
BothSelections(similarities) ==
    Bind(get_node_to_probs(similarities),
         LAMBDA node_to_probs :
            Bind(<<get_predicting_leaves(tree_root, node_to_probs, "greedy").value[1],
                   get_predicting_leaves(tree_root, node_to_probs, "sample_max").value[1]>>,
                 LAMBDA selected :
                    [greedy |-> selected[1],
                     sample_max |-> selected[2],
                     greedy_arrival |-> node_to_probs[selected[1]].log_p_arrival[1],
                     sample_max_arrival |-> node_to_probs[selected[2]].log_p_arrival[1]]))

\* C24: greedy and sample_max both select leaves of the tree, and for a tree of
\* depth at least 2 there is a sample on which they select different leaves, the
\* greedy leaf having a smaller arrival probability than the sample_max leaf.
C24_GreedyCanDisagree ==
    Bind({BothSelections(proto_base_forward(<<img>>)) : img \in Images}
             \cup {BothSelections(SkewedSimilarities)},
         LAMBDA selections :
            /\ \A both \in selections :
                  both.greedy \in TreeLeaves /\ both.sample_max \in TreeLeaves
            /\ depth >= 2 =>
                  \E both \in selections :
                      /\ both.greedy # both.sample_max
                      /\ RLt(both.greedy_arrival, both.sample_max_arrival))

\* A greedy call returned, for its first sample, a leaf that sample_max does not
\* select and that the sample reaches with a smaller probability.
C24_Witness ==
    /\ call.op = "forward"
    /\ call.strategy = "greedy"
    /\ call.raised = NoError
    /\ depth >= 2
    /\ call.predicting_leaves[1] \in TreeLeaves
    /\ call.predicting_leaves[1] # LeafForImage(call.x[1], "sample_max")
    /\ RLt(call.node_to_probs[call.predicting_leaves[1]].log_p_arrival[1],
           call.node_to_probs[LeafForImage(call.x[1], "sample_max")].log_p_arrival[1])

\* C25: at every internal node on the path of the greedy walk of a sample the
\* branch taken has routing probability at least 0.5, the left branch being
\* taken only when p_left > 0.5; the path has exactly depth steps, each from an
\* internal node to one of its children, and ends at a leaf.
C25_GreedyTakesLikelyBranch ==
    GreedyCall =>
        \A i \in 1 .. Len(call.x) :
            /\ Len(call.predicting_leaves[i]) = depth
            /\ call.predicting_leaves[i] \in TreeLeaves
            /\ \A k \in 1 .. depth :
                  /\ PathNode(call.predicting_leaves[i], k) \in TreeInternal
                  /\ \/ /\ PathChild(call.predicting_leaves[i], k) =
                               tree_root.right[PathNode(call.predicting_leaves[i], k)]
                        /\ RLe(NegLog2,
                               call.node_to_probs[PathNode(call.predicting_leaves[i], k)]
                                   .log_p_right[i])
                     \/ /\ PathChild(call.predicting_leaves[i], k) =
                               tree_root.left[PathNode(call.predicting_leaves[i], k)]
                        /\ RLt(NegLog2,
                               Log1mExp(call.node_to_probs[PathNode(call.predicting_leaves[i], k)]
                                            .log_p_right[i]))

\* A greedy walk over a tree of the largest depth that took the left branch at
\* one node and the right branch at another.
C25_Witness ==
    /\ GreedyCall
    /\ depth = MaxDepth
    /\ \E i \in 1 .. Len(call.x) :
          /\ 0 \in Range(call.predicting_leaves[i])
          /\ 1 \in Range(call.predicting_leaves[i])

ExplainOps == {"explain", "prototree_explain"}

\* C26 as stated: explain with the strategy "distributed" ends in an error; an
\* explain that returns was called in eval mode with a single-leaf strategy, and
\* its predicting_leaves and its rationalizations both have one entry per sample
\* of the batch, entry i of the two referring to the same leaf.
C26_ExplainPairsLeaves ==
    call.op \in ExplainOps =>
        /\ call.strategy = "distributed" => call.raised # NoError
        /\ call.raised = NoError =>
              /\ ~call.training
              /\ call.strategy \in HardStrategies
              /\ Len(call.predicting_leaves) = Len(call.x)
              /\ Len(call.returned) = Len(call.x)
              /\ \A i \in 1 .. Len(call.x) :
                    IF call.op = "explain"
                    THEN call.returned[i].leaf = call.predicting_leaves[i]
                    ELSE call.returned[i].label = predicted_label(call.predicting_leaves[i])

\* explain of prototree/models.py returned more rationalizations than leaves.
C26_Witness ==
    /\ call.op = "prototree_explain"
    /\ call.raised = NoError
    /\ depth = MaxDepth
    /\ Len(call.predicting_leaves) = Len(call.x)
    /\ Len(call.returned) = depth * Len(call.x)

EvaluationOps == {"eval_model", "eval_prototree_model", "eval_fidelity"}

\* The accuracy of batch k of the loader of the last call, from the logits
\* forward returns in eval mode for the strategy of the call.
BatchAccOfCall(k) ==
    Bind(forward_in_mode(FALSE, call.loader[k], call.strategy).logits,
         LAMBDA logits :
            Rat(Cardinality({s \in 1 .. Len(call.loader[k]) :
                                class_argmax(logits[s]) = Label(call.loader[k][s])}),
                Len(call.loader[k])))

C28_FreezeSchedule ==
    [][/\ freeze_epochs > 0 =>
             \A q \in params_to_freeze :
                 /\ epoch' \in 1 .. freeze_epochs => requires_grad'[q] = FALSE
                 /\ epoch' >= freeze_epochs + 1 => requires_grad'[q] = TRUE
       /\ freeze_epochs <= 0 => requires_grad' = requires_grad
       /\ \A q \in Params \ params_to_freeze : requires_grad'[q] = requires_grad[q]]_vars

\* The call for the epoch after the last frozen one has released the parameters
\* of the list and left one that is not in the list without gradient.
C28_Witness ==
    /\ freeze_epochs = MaxFreezeEpochs
    /\ epoch = freeze_epochs + 1
    /\ params_to_freeze # {}
    /\ \A q \in params_to_freeze : requires_grad[q]
    /\ \E q \in Params \ params_to_freeze : ~requires_grad[q]

=============================================================================
